---- MODULE Spec2Model ----
(***************************************************************************)
(* Scrape progress monitor of the job-scraper dashboard                    *)
(* (src/static/app.js, class JobScraperApp).                               *)
(*                                                                         *)
(* The browser runs one handler at a time: every action below is one       *)
(* macro-task of the event loop (a click handler up to its first await, the*)
(* continuation of an await when its fetch settles, or a timer callback).  *)
(* The backend is the environment: it creates sessions, moves them from    *)
(* "running" to a terminal status and answers or fails each request.       *)
(*                                                                         *)
(* A response body that decodes is taken to be a JSON object (a body that  *)
(* decodes to null would make the handlers throw on the first field read). *)
(***************************************************************************)
EXTENDS Integers, Sequences, FiniteSets

\* ---------------------------------------------------------------- bounds
\* Number of clicks on the scrape button that are explored.
MaxClicks == 2
\* Number of "running" answers the backend gives over a whole run.
MaxRunning == 2
\* Largest total_urls / completed value carried by a status snapshot.
MaxUrls == 2

\* ------------------------------------------------------ program constants
\* setTimeout(checkProgress, 2000)
PollDelay == 2000

\* -------------------------------------------------------------- values
\* Values this.currentSession can hold.  A session identifier is truthy;
\* null (the constructor's value), undefined (a response with no session_id)
\* and the empty string are falsy.
Null == [tag |-> "null", n |-> 0]
Undefined == [tag |-> "undefined", n |-> 0]
EmptyString == [tag |-> "empty", n |-> 0]
SessionId(n) == [tag |-> "id", n |-> n]
SessionNums == 1..MaxClicks
SessionIds == {SessionId(n) : n \in SessionNums}
Falsy == {Null, Undefined, EmptyString}
Truthy(v) == v.tag = "id"

\* status.status values.  "cancelled" stands for any status the client does
\* not name (it only names 'running' and 'completed').
Statuses == {"running", "completed", "failed", "cancelled"}
\* How the backend can finish a session; a session that did not complete is
\* reported with any of the other statuses.
Outcomes == {"completed", "failed"}
Reported(st) == IF st = "failed" THEN Statuses \ {"running", "completed"} ELSE {st}

\* Status snapshots as decoded from the response body.
Snapshots ==
    [status : Statuses, total_urls : 0..MaxUrls, completed : 0..MaxUrls]

\* Notifications: showNotification(message, type).  "by" records the caller
\* (for apiCall, the endpoint whose request failed); the message shown for an
\* apiCall failure is 'API call failed: ' followed by the error's message.
Note(message, type, by) == [message |-> message, type |-> type, by |-> by]
NoteWarnUrls ==
    Note("Please enter at least one job URL", "warning", "startScraping")
NoteStarted == Note("Started scraping N job postings", "success", "startScraping")
NoteStartFailed == Note("Failed to start scraping", "error", "startScraping")
NoteCompleted == Note("Scraping completed successfully", "success", "checkProgress")
NoteScrapingFailed == Note("Scraping failed", "error", "checkProgress")
NoteApiFailed(endpoint) == Note("API call failed: <error.message>", "error", endpoint)
Endpoints == {"/scrape", "/scrape/status"}
Notifications ==
    {NoteWarnUrls, NoteStarted, NoteStartFailed, NoteCompleted, NoteScrapingFailed}
        \cup {NoteApiFailed(e) : e \in Endpoints}
NoNote == Note("", "", "")

\* ------------------------------------------------------------- numbers
\* JavaScript numbers of updateProgress, kept exact: a finite value is a
\* reduced fraction num/den with den > 0; 0/0 is NaN and x/0 (x > 0) is
\* Infinity, as the division operator yields them (no exception is thrown).
RECURSIVE GCD(_, _)
GCD(a, b) == IF b = 0 THEN a ELSE GCD(b, a % b)
Rat(n, d) == [num |-> n \div GCD(n, d), den |-> d \div GCD(n, d)]
NaN == [num |-> 0, den |-> 0]
Infinity == [num |-> 1, den |-> 0]
IsFinite(q) == q.den > 0
JsDiv(a, b) ==
    IF b = 0 THEN (IF a = 0 THEN NaN ELSE Infinity) ELSE Rat(a, b)
JsMul(q, k) ==
    IF IsFinite(q) THEN Rat(q.num * k, q.den) ELSE q

VARIABLES
    currentSession,   \* this.currentSession
    progressVisible,  \* #progress-section does not carry class 'hidden'
    progress,         \* #progress-bar width and #progress-text
    notes,            \* notifications shown so far, counted per notification
    chains,           \* the checkProgress closures created so far
    scrapePending,    \* POST /scrape requests in flight
    refreshes,        \* loadJobs() calls made by checkProgress
    server,           \* backend: status of each session, "none" if not created
    clicks            \* clicks on the scrape button so far

vars == <<currentSession, progressVisible, progress, notes, chains,
          scrapePending, refreshes, server, clicks>>

\* The client's part of the state, as one record handled by the operators
\* that model the methods of JobScraperApp.
App ==
    [currentSession |-> currentSession, progressVisible |-> progressVisible,
     progress |-> progress, notes |-> notes, chains |-> chains,
     refreshes |-> refreshes]

Becomes(a) ==
    /\ currentSession' = a.currentSession
    /\ progressVisible' = a.progressVisible
    /\ progress' = a.progress
    /\ notes' = a.notes
    /\ chains' = a.chains
    /\ refreshes' = a.refreshes

\* ------------------------------------------------------------- methods
showNotification(a, note) ==
    [a EXCEPT !.notes[note] = @ + 1]

showProgressSection(a) == [a EXCEPT !.progressVisible = TRUE]

hideProgressSection(a) == [a EXCEPT !.progressVisible = FALSE]

\* const percentage = status.total_urls > 0
\*     ? (status.completed / status.total_urls) * 100 : 0;
\* Mutant: the guard on total_urls is missing.
PercentageUnguarded(completed, total_urls) ==
    JsMul(JsDiv(completed, total_urls), 100)

Percentage(completed, total_urls) ==
    IF total_urls > 0
    THEN JsMul(JsDiv(completed, total_urls), 100)
    ELSE Rat(0, 1)

updateProgress(a, status) ==
    [a EXCEPT !.progress =
        [width |-> Percentage(status.completed, status.total_urls),
         completed |-> status.completed,
         total_urls |-> status.total_urls]]

\* loadJobs() up to its await: the GET /jobs request is issued.  What its
\* answer does to the job list is another task's work and is left out.
loadJobs(a) ==
    [a EXCEPT !.refreshes = @ + 1]

\* Mutant: the failure is only written to the console.
apiCallCatchOnlyLogs(a, endpoint) == a

\* apiCall's catch block: the failure is notified, then rethrown.
apiCallCatch(a, endpoint) ==
    showNotification(a, NoteApiFailed(endpoint))

\* A poll chain is one checkProgress closure.  pc says where it stands:
\* "fetch" (its status request is in flight), "timer" (its setTimeout is
\* pending) or "done".  sid is the session its latest request asked for,
\* polls the requests it issued, runs the 'running' answers it received,
\* end how it ended and report the notification shown when it ended.
NewChain ==
    [pc |-> "new", sid |-> Null, polls |-> 0, runs |-> 0, delay |-> 0,
     end |-> "none", report |-> NoNote]

\* Mutant: the closure keeps the session its chain began with.
checkProgressKeepsSession(a, c) ==
    [a EXCEPT !.chains[c] =
        [@ EXCEPT !.pc = "fetch",
                  !.sid = IF @ = Null THEN a.currentSession ELSE @,
                  !.polls = @ + 1, !.delay = 0]]

\* checkProgress up to its await: the status request is issued for the
\* session stored in this.currentSession at this moment.
checkProgress(a, c) ==
    [a EXCEPT !.chains[c] =
        [@ EXCEPT !.pc = "fetch", !.sid = a.currentSession,
                  !.polls = @ + 1, !.delay = 0]]

\* Mutant: a 'running' answer polls again at once instead of setting the timer.
checkProgressResumePollsAtOnce(a, c, status) ==
    LET u == updateProgress(a, status) IN
    IF status.status = "running"
    THEN checkProgress([u EXCEPT !.chains[c].runs = @ + 1], c)
    ELSE LET h == hideProgressSection(u) IN
         IF status.status = "completed"
         THEN LET l == loadJobs(h) IN
              [showNotification(l, NoteCompleted) EXCEPT !.chains[c] =
                  [@ EXCEPT !.pc = "done", !.end = "completed",
                            !.report = NoteCompleted]]
         ELSE [showNotification(h, NoteScrapingFailed) EXCEPT !.chains[c] =
                  [@ EXCEPT !.pc = "done", !.end = "failed",
                            !.report = NoteScrapingFailed]]

\* Mutant: only 'failed' is a failure; a status the client does not name
\* is taken for progress and polled again.
checkProgressResumeOnlyFailedFails(a, c, status) ==
    LET u == updateProgress(a, status) IN
    IF status.status \notin {"completed", "failed"}
    THEN [u EXCEPT !.chains[c] =
            [@ EXCEPT !.pc = "timer", !.delay = PollDelay,
                      !.runs = IF @ < MaxRunning THEN @ + 1 ELSE @]]
    ELSE LET h == hideProgressSection(u) IN
         IF status.status = "completed"
         THEN LET l == loadJobs(h) IN
              [showNotification(l, NoteCompleted) EXCEPT !.chains[c] =
                  [@ EXCEPT !.pc = "done", !.end = "completed",
                            !.report = NoteCompleted]]
         ELSE [showNotification(h, NoteScrapingFailed) EXCEPT !.chains[c] =
                  [@ EXCEPT !.pc = "done", !.end = "failed",
                            !.report = NoteScrapingFailed]]

\* Mutant: an answer to a request for a session that is no longer the stored
\* one is dropped and its chain ends silently.
checkProgressResumeDropsStale(a, c, status) ==
    IF a.chains[c].sid # a.currentSession
    THEN [a EXCEPT !.chains[c] = [@ EXCEPT !.pc = "done", !.end = "stale"]]
    ELSE LET u == updateProgress(a, status) IN
         IF status.status = "running"
         THEN [u EXCEPT !.chains[c] =
                 [@ EXCEPT !.pc = "timer", !.delay = PollDelay, !.runs = @ + 1]]
         ELSE LET h == hideProgressSection(u) IN
              IF status.status = "completed"
              THEN LET l == loadJobs(h) IN
                   [showNotification(l, NoteCompleted) EXCEPT !.chains[c] =
                       [@ EXCEPT !.pc = "done", !.end = "completed",
                                 !.report = NoteCompleted]]
              ELSE [showNotification(h, NoteScrapingFailed) EXCEPT !.chains[c] =
                       [@ EXCEPT !.pc = "done", !.end = "failed",
                                 !.report = NoteScrapingFailed]]

\* checkProgress after the await, the request having succeeded.
checkProgressResume(a, c, status) ==
    LET u == updateProgress(a, status) IN
    IF status.status = "running"
    THEN [u EXCEPT !.chains[c] =
            [@ EXCEPT !.pc = "timer", !.delay = PollDelay, !.runs = @ + 1]]
    ELSE LET h == hideProgressSection(u) IN
         IF status.status = "completed"
         THEN LET l == loadJobs(h) IN
              [showNotification(l, NoteCompleted) EXCEPT !.chains[c] =
                  [@ EXCEPT !.pc = "done", !.end = "completed",
                            !.report = NoteCompleted]]
         ELSE [showNotification(h, NoteScrapingFailed) EXCEPT !.chains[c] =
                  [@ EXCEPT !.pc = "done", !.end = "failed",
                            !.report = NoteScrapingFailed]]

\* Mutant: the catch block retries after the delay instead of giving up.
checkProgressCatchRetries(a, c) ==
    [hideProgressSection(a) EXCEPT !.chains[c] =
        [@ EXCEPT !.pc = "timer", !.delay = PollDelay, !.end = "transport"]]

\* Mutant: the catch block only logs the error.
checkProgressCatchOnlyLogs(a, c) ==
    [a EXCEPT !.chains[c] =
        [@ EXCEPT !.pc = "done", !.end = "transport",
                  !.report = NoteApiFailed("/scrape/status")]]

\* checkProgress's catch block: apiCall threw, having notified the failure.
checkProgressCatch(a, c) ==
    [hideProgressSection(a) EXCEPT !.chains[c] =
        [@ EXCEPT !.pc = "done", !.end = "transport",
                  !.report = NoteApiFailed("/scrape/status")]]

\* Mutant: the first poll waits for the delay like the later ones.
monitorScrapingProgressDefers(a) ==
    IF ~Truthy(a.currentSession)
    THEN a
    ELSE [a EXCEPT !.chains =
            Append(@, [NewChain EXCEPT !.pc = "timer", !.delay = PollDelay])]

\* Mutant: the guard on the stored session is missing.
monitorScrapingProgressUnguarded(a) ==
    checkProgress([a EXCEPT !.chains = Append(@, NewChain)],
                  Len(a.chains) + 1)

monitorScrapingProgress(a) ==
    IF ~Truthy(a.currentSession)
    THEN a
    ELSE checkProgress([a EXCEPT !.chains = Append(@, NewChain)],
                       Len(a.chains) + 1)

\* startScraping after the await, the POST having succeeded (lines 106-109).
startScrapingResume(a, session_id) ==
    LET s == [a EXCEPT !.currentSession = session_id] IN
    showNotification(monitorScrapingProgress(showProgressSection(s)),
                     NoteStarted)

\* --------------------------------------------------------- environment
RECURSIVE SumRuns(_)
SumRuns(cs) == IF cs = <<>> THEN 0 ELSE Head(cs).runs + SumRuns(Tail(cs))

\* 'running' answers given so far, over all chains.
TotalRuns == SumRuns(chains)

\* The identifier the backend gives the next session it creates.
Created == {n \in SessionNums : server[n] # "none"}
FreshNum == Cardinality(Created) + 1

\* The statuses the backend may answer a request for sid with: the status of
\* the session when it created it, anything for an identifier it never
\* issued (a chain that outlives its session asks for 'undefined').
Answers(sid) ==
    IF Truthy(sid) /\ server[sid.n] # "none"
    THEN Reported(server[sid.n])
    ELSE Statuses

\* The snapshots the backend may answer a request for sid with.  Any counts
\* can come with a status (completed <= total_urls is expected of the backend
\* but not enforced by the client); a backend that counts its work reports
\* one URL list per session, untouched while running and done when finished.
AnySnapshots(sid) == {s \in Snapshots : s.status \in Answers(sid)}
UrlsOf(sid) ==
    IF Truthy(sid) THEN (IF sid.n < MaxUrls THEN sid.n ELSE MaxUrls) ELSE 0
CountedSnapshots(sid) ==
    {s \in AnySnapshots(sid) :
        /\ s.total_urls = UrlsOf(sid)
        /\ s.completed = IF s.status = "running" THEN 0 ELSE s.total_urls}

\* ---------------------------------------------------------------- state
\* The values the state takes.
TypeOK ==
    /\ currentSession \in SessionIds \cup Falsy
    /\ progressVisible \in BOOLEAN
    /\ progress.completed \in 0..MaxUrls
    /\ progress.total_urls \in 0..MaxUrls
    /\ notes \in [Notifications -> Nat]
    /\ Len(chains) <= MaxClicks
    /\ \A c \in DOMAIN chains :
          /\ chains[c].pc \in {"fetch", "timer", "done"}
          /\ chains[c].sid \in SessionIds \cup Falsy
          /\ chains[c].end \in {"none", "completed", "failed", "transport"}
          /\ chains[c].pc = "done" <=> chains[c].end # "none"
          /\ chains[c].delay = IF chains[c].pc = "timer" THEN PollDelay ELSE 0
    /\ scrapePending \in 0..MaxClicks
    /\ refreshes \in Nat
    /\ server \in [SessionNums -> {"none", "running"} \cup Outcomes]
    /\ clicks \in 0..MaxClicks

\* The state the constructor leaves.  The page's markup is not part of the
\* script: the progress section is taken to start hidden and empty.
Init ==
    /\ currentSession = Null
    /\ progressVisible = FALSE
    /\ progress = [width |-> Rat(0, 1), completed |-> 0, total_urls |-> 0]
    /\ notes = [x \in Notifications |-> 0]
    /\ chains = <<>>
    /\ scrapePending = 0
    /\ refreshes = 0
    /\ server = [n \in SessionNums |-> "none"]
    /\ clicks = 0

\* -------------------------------------------------------------- actions
\* startScraping with no URL in the textarea: a warning, no request.
ClickScrapeNoUrls ==
    /\ clicks < MaxClicks
    /\ clicks' = clicks + 1
    /\ Becomes(showNotification(App, NoteWarnUrls))
    /\ UNCHANGED <<scrapePending, server>>

\* startScraping up to its await: POST /scrape is issued.
ClickScrape ==
    /\ clicks < MaxClicks
    /\ clicks' = clicks + 1
    /\ scrapePending' = scrapePending + 1
    /\ UNCHANGED <<currentSession, progressVisible, progress, notes, chains,
                   refreshes, server>>

\* POST /scrape is accepted: the backend has created a session and answers
\* with its identifier, or with a body that carries no usable session_id.
ScrapeAcceptedWith(id) ==
    /\ scrapePending > 0
    /\ scrapePending' = scrapePending - 1
    /\ server' = IF Truthy(id)
                 THEN [server EXCEPT ![id.n] = "running"]
                 ELSE server
    /\ Becomes(startScrapingResume(App, id))
    /\ UNCHANGED clicks

ScrapeAccepted ==
    \E id \in {SessionId(FreshNum)} \cup Falsy : ScrapeAcceptedWith(id)

\* The answer the backend is meant to give: { session_id: string }.
ScrapeAcceptedWithId == ScrapeAcceptedWith(SessionId(FreshNum))

\* Mutant: the catch of startScraping forgets the session and hides the
\* progress UI.
ScrapeFailedResets ==
    /\ scrapePending > 0
    /\ scrapePending' = scrapePending - 1
    /\ Becomes(hideProgressSection(
           [showNotification(apiCallCatch(App, "/scrape"), NoteStartFailed)
               EXCEPT !.currentSession = Null]))
    /\ UNCHANGED <<server, clicks>>

\* POST /scrape fails in apiCall (network, HTTP status or undecodable body).
ScrapeFailed ==
    /\ scrapePending > 0
    /\ scrapePending' = scrapePending - 1
    /\ Becomes(showNotification(apiCallCatch(App, "/scrape"), NoteStartFailed))
    /\ UNCHANGED <<server, clicks>>

\* The backend finishes a session.
BackendFinish ==
    \E n \in SessionNums, st \in Outcomes :
        /\ server[n] = "running"
        /\ server' = [server EXCEPT ![n] = st]
        /\ UNCHANGED <<currentSession, progressVisible, progress, notes,
                       chains, scrapePending, refreshes, clicks>>

\* The status request of chain c is answered with a snapshot.
StatusAnsweredWith(c, counted) ==
    /\ c \in DOMAIN chains
    /\ chains[c].pc = "fetch"
    /\ \E status \in IF counted THEN CountedSnapshots(chains[c].sid)
                                ELSE AnySnapshots(chains[c].sid) :
          /\ status.status = "running" => TotalRuns < MaxRunning
          /\ Becomes(checkProgressResume(App, c, status))
    /\ UNCHANGED <<scrapePending, server, clicks>>

StatusAnswered(c) == StatusAnsweredWith(c, TRUE)

StatusAnsweredAnyCounts(c) == StatusAnsweredWith(c, FALSE)

\* The status request of chain c fails in apiCall.
StatusFailed(c) ==
    /\ c \in DOMAIN chains
    /\ chains[c].pc = "fetch"
    /\ Becomes(checkProgressCatch(apiCallCatch(App, "/scrape/status"), c))
    /\ UNCHANGED <<scrapePending, server, clicks>>

\* The continuation timer of chain c fires: checkProgress runs again.
TimerFires(c) ==
    /\ c \in DOMAIN chains
    /\ chains[c].pc = "timer"
    /\ Becomes(checkProgress(App, c))
    /\ UNCHANGED <<scrapePending, server, clicks>>

\* Every accepted POST /scrape can start one chain.
ChainIds == 1..MaxClicks

Next ==
    \/ ClickScrapeNoUrls
    \/ ClickScrape
    \/ ScrapeAccepted
    \/ ScrapeFailed
    \/ BackendFinish
    \/ \E c \in ChainIds : StatusAnswered(c)
    \/ \E c \in ChainIds : StatusFailed(c)
    \/ \E c \in ChainIds : TimerFires(c)

Spec == Init /\ [][Next]_vars

\* The environment the liveness claim assumes: a status request in flight
\* settles, a pending timer fires and the backend finishes its sessions.
\* (Fairness over the chains together is the weakest form of it: it follows
\* from every single request settling and every single timer firing.)
Fairness ==
    /\ WF_vars(BackendFinish)
    /\ WF_vars(\E c \in ChainIds : StatusAnswered(c) \/ StatusFailed(c))
    /\ WF_vars(\E c \in ChainIds : TimerFires(c))

\* The runs the liveness claim is about: every begin carries a session
\* identifier.  (Clicks that start no chain are left out: they only add
\* notifications.)
LiveNext ==
    \/ ClickScrape
    \/ ScrapeAcceptedWithId
    \/ BackendFinish
    \/ \E c \in ChainIds : StatusAnswered(c)
    \/ \E c \in ChainIds : StatusFailed(c)
    \/ \E c \in ChainIds : TimerFires(c)

LiveSpec == Init /\ [][LiveNext]_vars /\ Fairness

\* One scrape whose status snapshots carry any counts: the specification
\* updateProgress is checked under.
ClickFirstScrape == clicks = 0 /\ ClickScrape

ProgressNext ==
    \/ ClickFirstScrape
    \/ ScrapeAccepted
    \/ BackendFinish
    \/ \E c \in ChainIds : StatusAnsweredAnyCounts(c)
    \/ \E c \in ChainIds : TimerFires(c)

ProgressSpec == Init /\ [][ProgressNext]_vars

\* ----------------------------------------------------------- vocabulary
\* A chain is active while its request is in flight or its timer pending.
Active(c) == chains[c].pc \in {"fetch", "timer"}
ActiveChains == {c \in DOMAIN chains : Active(c)}

\* Executions of lines 106-109 so far (each ends with the 'Started' notice),
\* and whether one of them stored a falsy session (it created no chain).
Begins == notes[NoteStarted]
FalsyBegun == Begins > Len(chains)

\* This step runs lines 106-109.
BeginStep == notes'[NoteStarted] = notes[NoteStarted] + 1

\* Chain c issues a status request in this step.
IssuesPoll(c) ==
    /\ c \in DOMAIN chains'
    /\ chains'[c].pc = "fetch"
    /\ c \in DOMAIN chains => chains'[c].polls = chains[c].polls + 1

\* Some poll has observed a terminal status for session sid.
TerminalSeen(sid) ==
    \E c \in DOMAIN chains :
        chains[c].end \in {"completed", "failed"} /\ chains[c].sid = sid

\* --------------------------------------------------------------- claims
\* C1: in every reachable state at most one poll chain is active (a status
\* request in flight or a continuation timer pending).
C1_AtMostOneActiveChain == Cardinality(ActiveChains) <= 1

\* C2: once a poll has observed a terminal status for a session, no status
\* request is issued for that session any more.
C2_NoPollAfterTerminal ==
    [][\A c \in ChainIds :
          IssuesPoll(c) => ~TerminalSeen(chains'[c].sid)]_vars

\* Notifications of a type shown by the poll chains: by checkProgress itself
\* or by apiCall for a status request.  (startScraping shows its own
\* 'Started scraping' notice when it calls the monitor.)
RECURSIVE SumNotes(_)
SumNotes(S) ==
    IF S = {} THEN 0
    ELSE LET x == CHOOSE y \in S : TRUE IN notes[x] + SumNotes(S \ {x})
MonitorShown(type) ==
    SumNotes({x \in Notifications :
                x.type = type /\ x.by \in {"checkProgress", "/scrape/status"}})

\* The only begin so far started the one chain there is.
SingleBegin == Begins = 1 /\ Len(chains) = 1

\* A poll is issued either by the begin that creates its chain (the first
\* one) or by the chain's pending 2000 ms timer, which is only ever set by a
\* 'running' answer to the chain's previous poll.
PollsOnlyByBeginOrTimer ==
    \A c \in ChainIds :
        /\ IssuesPoll(c) =>
              \/ c \notin DOMAIN chains /\ BeginStep /\ chains'[c].polls = 1
              \/ /\ c \in DOMAIN chains
                 /\ chains[c].pc = "timer"
                 /\ chains[c].delay = PollDelay
        /\ (c \in DOMAIN chains' /\ chains'[c].pc = "timer"
                /\ (c \in DOMAIN chains => chains[c].pc # "timer")) =>
              /\ c \in DOMAIN chains
              /\ chains[c].pc = "fetch"
              /\ chains'[c].runs = chains[c].runs + 1
              /\ chains'[c].polls = chains[c].polls
              /\ chains'[c].delay = PollDelay

\* C3: after a single begin whose polls were answered 'running' n times and
\* then 'completed', the chain has issued n + 1 polls, the progress UI is
\* hidden, checkProgress has called loadJobs once and shown its success
\* notification once, and neither it nor its status request has shown a
\* failure notification; every poll but the first was issued by the 2000 ms
\* timer set after a 'running' answer.
C3_CompletedRun ==
    /\ [](SingleBegin /\ chains[1].end = "completed" =>
            /\ chains[1].pc = "done"
            /\ chains[1].polls = chains[1].runs + 1
            /\ ~progressVisible
            /\ refreshes = 1
            /\ notes[NoteCompleted] = 1
            /\ MonitorShown("success") = 1
            /\ MonitorShown("error") = 0)
    /\ [][PollsOnlyByBeginOrTimer]_vars

C3_Witness ==
    /\ SingleBegin
    /\ chains[1].end = "completed"
    /\ chains[1].runs = 2
    /\ chains[1].polls = 3
    /\ refreshes = 1

\* C4: after a single begin whose polls were answered 'running' n times and
\* then a status that is neither 'running' nor 'completed', the chain has
\* issued n + 1 polls, the progress UI is hidden, one failure notification
\* and no success notification was shown by checkProgress, and loadJobs was
\* not called; any two such statuses leave the client in the same state.
C4_FailedRun ==
    /\ SingleBegin /\ chains[1].end = "failed" =>
          /\ chains[1].pc = "done"
          /\ chains[1].polls = chains[1].runs + 1
          /\ ~progressVisible
          /\ refreshes = 0
          /\ notes[NoteScrapingFailed] = 1
          /\ MonitorShown("error") = 1
          /\ MonitorShown("success") = 0
    /\ \A c \in DOMAIN chains :
          chains[c].pc = "fetch" =>
              \A s \in Snapshots :
                  s.status \notin {"running", "completed"} =>
                      checkProgressResume(App, c, s)
                          = checkProgressResume(App, c,
                                                [s EXCEPT !.status = "failed"])

C4_Witness ==
    /\ SingleBegin
    /\ chains[1].end = "failed"
    /\ chains[1].runs = 1
    /\ chains[1].polls = 2
    /\ notes[NoteScrapingFailed] = 1

\* C5: when the status request of a chain's k-th poll fails in apiCall, the
\* chain ends there with k polls issued (k - 1 'running' answers before), no
\* timer is set, the progress UI is hidden, apiCall's failure notification
\* is shown and loadJobs is not called; an ended chain never polls again.
C5_FetchFailureEndsChain ==
    [][\A c \in DOMAIN chains :
          /\ (chains[c].end # "transport" /\ chains'[c].end = "transport") =>
                /\ chains[c].pc = "fetch"
                /\ chains'[c].pc = "done"
                /\ chains'[c].delay = 0
                /\ chains'[c].polls = chains[c].polls
                /\ chains'[c].polls = chains'[c].runs + 1
                /\ ~progressVisible'
                /\ notes'[NoteApiFailed("/scrape/status")]
                      = notes[NoteApiFailed("/scrape/status")] + 1
                /\ refreshes' = refreshes
          /\ chains[c].pc = "done" => chains'[c] = chains[c]]_vars

C5_Witness ==
    \E c \in DOMAIN chains :
        /\ chains[c].end = "transport"
        /\ chains[c].runs = 1
        /\ chains[c].polls = 2
        /\ ~progressVisible
        /\ notes[NoteApiFailed("/scrape/status")] = 1

\* C6: a begin with a session identifier, in whatever state the monitor is,
\* stores the identifier, shows the progress UI and issues the first status
\* request for it within the same task (no timer in between), leaving the
\* chains that exist untouched.
C6_BeginPollsAtOnce ==
    [][BeginStep /\ Truthy(currentSession') =>
          /\ currentSession' = SessionId(FreshNum)
          /\ progressVisible'
          /\ Len(chains') = Len(chains) + 1
          /\ chains'[Len(chains')].pc = "fetch"
          /\ chains'[Len(chains')].sid = currentSession'
          /\ chains'[Len(chains')].polls = 1
          /\ chains'[Len(chains')].delay = 0
          /\ \A c \in DOMAIN chains : chains'[c] = chains[c]]_vars

\* A begin made while the previous chain is still active.
C6_Witness ==
    /\ Len(chains) = 2
    /\ Active(1)
    /\ chains[2].pc = "fetch"
    /\ chains[2].polls = 1
    /\ chains[2].sid = currentSession
    /\ progressVisible

\* C7: under the fairness of LiveSpec (requests settle, timers fire, the
\* backend finishes every session), with the finitely many begins of a run
\* all carrying a session identifier, eventually every chain has ended and
\* the progress UI is hidden, for good; and a hidden progress UI is only
\* ever shown again by a begin.
C7_ChainsTerminate ==
    /\ <>[](ActiveChains = {} /\ ~progressVisible)
    /\ [][~progressVisible /\ progressVisible' => BeginStep]_vars

\* Two chains that polled more than once have both ended, the UI is hidden.
C7_Witness ==
    /\ Len(chains) = 2
    /\ ActiveChains = {}
    /\ chains[1].runs > 0
    /\ chains[2].runs > 0
    /\ ~FalsyBegun
    /\ ~progressVisible

\* The notifications shown in this step.
ShownInStep == {x \in Notifications : notes'[x] > notes[x]}

\* Chain c ends in this step, in the way given.
EndsInStep(c, how) ==
    c \in DOMAIN chains /\ chains[c].end = "none" /\ chains'[c].end = how

C9_Percentage ==
    LET w == progress.width
        done == progress.completed
        total == progress.total_urls
    IN  /\ IsFinite(w)
        /\ total = 0 => w = Rat(0, 1)
        /\ total > 0 => w.num * total = 100 * done * w.den
        /\ done <= total =>
              /\ 0 <= w.num
              /\ w.num <= 100 * w.den
              /\ (w = Rat(100, 1)) <=> (done = total /\ total > 0)

\* A snapshot with total_urls = 0 and a positive completed count was shown.
C9_Witness ==
    /\ progress.total_urls = 0
    /\ progress.completed > 0
    /\ progress.width = Rat(0, 1)

\* C10: with no session stored (null, undefined or the empty string),
\* monitorScrapingProgress changes nothing: no request, no timer, the same
\* session, visibility and notifications.  A begin that stores such a value
\* therefore only shows the progress UI and the 'Started' notice.
C10_NoSessionNoOp ==
    /\ [](~Truthy(currentSession) => monitorScrapingProgress(App) = App)
    /\ [][BeginStep /\ ~Truthy(currentSession') =>
            /\ chains' = chains
            /\ refreshes' = refreshes
            /\ progress' = progress
            /\ progressVisible'
            /\ notes' = [notes EXCEPT ![NoteStarted] = @ + 1]]_vars

\* A begin stored the empty string: the UI is shown and nothing polls.
C10_Witness ==
    /\ currentSession = EmptyString
    /\ FalsyBegun
    /\ chains = <<>>
    /\ progressVisible

\* The status request of chain c, issued for a session that is no longer
\* the stored one, is answered in this step.
StaleAnswerInStep(c) ==
    /\ c \in DOMAIN chains
    /\ chains[c].pc = "fetch"
    /\ chains[c].sid # currentSession
    /\ chains'[c].pc # "fetch"
    /\ chains'[c].end # "transport"

\* C11: the answer to a status request issued for a session that a later
\* begin has replaced is applied like any other: the progress bar shows the
\* counts of the session that was asked for, a 'running' answer sets the
\* timer, a terminal one hides the progress UI and shows the terminal
\* notification (with a loadJobs call on 'completed'); the stored session
\* stays the new one.
C11_StaleAnswerApplied ==
    [][\A c \in ChainIds :
          StaleAnswerInStep(c) =>
              /\ currentSession' = currentSession
              /\ progress'.total_urls = UrlsOf(chains[c].sid)
              /\ progress'.width
                    = Percentage(progress'.completed, progress'.total_urls)
              /\ \/ /\ chains'[c].pc = "timer"
                    /\ progress'.completed = 0
                    /\ progressVisible' = progressVisible
                    /\ notes' = notes
                    /\ refreshes' = refreshes
                 \/ /\ chains'[c].end = "completed"
                    /\ progress'.completed = progress'.total_urls
                    /\ ~progressVisible'
                    /\ notes' = [notes EXCEPT ![NoteCompleted] = @ + 1]
                    /\ refreshes' = refreshes + 1
                 \/ /\ chains'[c].end = "failed"
                    /\ progress'.completed = progress'.total_urls
                    /\ ~progressVisible'
                    /\ notes' = [notes EXCEPT ![NoteScrapingFailed] = @ + 1]
                    /\ refreshes' = refreshes]_vars

\* The first session's request was answered 'completed' after the second
\* begin: its counts are shown and the UI is hidden while the second
\* session's first request is still in flight.
C11_Witness ==
    /\ Len(chains) = 2
    /\ chains[1].sid = SessionId(1)
    /\ chains[1].end = "completed"
    /\ currentSession = SessionId(2)
    /\ chains[2].pc = "fetch"
    /\ chains[2].polls = 1
    /\ ~progressVisible
    /\ progress.total_urls = UrlsOf(SessionId(1))
    /\ UrlsOf(SessionId(1)) # UrlsOf(SessionId(2))

\* A click that issues no request: the URL list was empty.
EmptyClickStep == clicks' # clicks /\ scrapePending' = scrapePending

\* A POST /scrape settles without a begin: the call failed.
ScrapeFailedStep == scrapePending' < scrapePending /\ ~BeginStep

\* C12: the stored session changes only in the step that handles an accepted
\* POST /scrape. A click with an empty URL list issues no request and shows
\* only the warning; a failed POST /scrape shows only error notifications
\* (apiCall's and startScraping's). Both leave the stored session, the
\* visibility of the progress UI, the progress bar and the chains untouched.
C12_SessionOnlyWhenAccepted ==
    [][/\ currentSession' # currentSession
            => scrapePending' = scrapePending - 1 /\ BeginStep
       /\ EmptyClickStep \/ ScrapeFailedStep
            => UNCHANGED <<currentSession, progressVisible, progress, chains,
                           refreshes, server>>
       /\ EmptyClickStep
            => notes' = [notes EXCEPT ![NoteWarnUrls] = @ + 1]
       /\ ScrapeFailedStep
            => notes' = [notes EXCEPT ![NoteApiFailed("/scrape")] = @ + 1,
                                      ![NoteStartFailed] = @ + 1]]_vars

\* A POST /scrape has failed and an empty click is not needed to see it: the
\* first session is stored, its chain is the only one and is still polling,
\* the progress UI is visible.
C12_Witness ==
    /\ notes[NoteStartFailed] = 1
    /\ notes[NoteApiFailed("/scrape")] = 1
    /\ scrapePending = 0
    /\ currentSession = SessionId(1)
    /\ Len(chains) = 1
    /\ Active(1)
    /\ progressVisible

\* Session n was created by the backend and is no longer the stored one:
\* a later begin has replaced it.
Superseded(n) == server[n] # "none" /\ currentSession # SessionId(n)

\* A status request for session n is in flight.
InFlightFor(n) ==
    \E c \in DOMAIN chains :
        chains[c].pc = "fetch" /\ chains[c].sid = SessionId(n)

\* C13: every status request is issued for the session stored in
\* currentSession when it is issued, whatever session its chain began with.
\* Once a session is superseded it stays superseded and no chain issues a
\* request for it again; unless a request for it was still in flight, no
\* poll observes its terminal status.
C13_PollsStoredSession ==
    [][/\ \A c \in ChainIds :
             IssuesPoll(c) => chains'[c].sid = currentSession'
       /\ \A n \in SessionNums :
             Superseded(n) =>
                 /\ Superseded(n)'
                 /\ \A c \in ChainIds :
                       IssuesPoll(c) => chains'[c].sid # SessionId(n)
                 /\ ~InFlightFor(n) /\ ~TerminalSeen(SessionId(n))
                       => ~TerminalSeen(SessionId(n))']_vars

\* The first chain began with session 1 and, after the second begin, has
\* polled for session 2; session 1 has finished on the backend and no poll
\* has seen it.
C13_Witness ==
    /\ Len(chains) = 2
    /\ currentSession = SessionId(2)
    /\ chains[1].polls >= 2
    /\ chains[1].sid = SessionId(2)
    /\ server[1] \in Outcomes
    /\ ~TerminalSeen(SessionId(1))

\* Some chain has ended.
SomeChainEnded == \E c \in DOMAIN chains : chains[c].pc = "done"

\* C14: in every reachable state the progress UI is visible whenever some
\* chain is active, and hidden whenever no chain is active and at least one
\* chain has ended.
C14_ProgressTracksChains ==
    /\ ActiveChains # {} => progressVisible
    /\ ActiveChains = {} /\ SomeChainEnded => ~progressVisible

====
